---- MODULE Spec2Model ----
(***************************************************************************)
(* obsidian-link (src/src/main.rs): the rule-driven URL dispatch           *)
(* (LinkType::from_url, get_resolution), the note pipeline (handle_url and *)
(* its three handlers, create_markdown_file, format_frontmatter) and the   *)
(* two sanitizers (sanitize_tag, sanitize_filename).                       *)
(*                                                                         *)
(* A text is a sequence of strings. Text that the sanitizers go through    *)
(* (titles, tags) has one character per element; the two non-ASCII         *)
(* characters of the alphabet are written by their code points, "U+0130"   *)
(* (LATIN CAPITAL LETTER I WITH DOT ABOVE) and "U+0307" (COMBINING DOT     *)
(* ABOVE). Text that is only copied into a frontmatter line (url, author,  *)
(* date) is a single element. Names, keys, folders and URLs are strings.   *)
(***************************************************************************)
EXTENDS Integers, Sequences, FiniteSets, TLC

VARIABLES
    text,          \* sanitizers: the input text
    tag_out,       \* sanitizers: sanitize_tag(text)
    tag_again,     \* sanitizers: sanitize_tag(tag_out)
    file_name,     \* sanitizers: sanitize_filename(text)
    spc,           \* sanitizers: position of the run
    url,           \* the URL of the invocation (Cli.url)
    config,        \* the loaded Config: vault, frontmatter, links
    link_type,     \* the Result<LinkType> of LinkType::from_url
    video_id,      \* the Result<String> of extract_video_id
    args,          \* the arguments a handler passes to create_markdown_file
    dirs,          \* filesystem: the directories that exist
    files,         \* filesystem: the files that exist, path -> content
    result,        \* the Result<()> of handle_url
    extract_calls, \* calls of extract_video_id
    fetch_calls,   \* calls of fetch_video_metadata
    pc             \* position of the invocation

svars == <<text, tag_out, tag_again, file_name, spc>>
cvars == <<url, config, link_type, video_id, args, dirs, files, result,
           extract_calls, fetch_calls, pc>>
vars == <<text, tag_out, tag_again, file_name, spc, url, config, link_type,
          video_id, args, dirs, files, result, extract_calls, fetch_calls, pc>>

(***************************************************************************)
(* Bounds                                                                  *)
(***************************************************************************)
\* Longest text handed to the sanitizers.
MaxLen == 4
\* Longest rule table handed to LinkType::from_url alone.
MaxRules == 3
\* Longest rule table of a whole invocation.
MaxLinks == 2

(***************************************************************************)
(* Characters                                                              *)
(***************************************************************************)
UpperSeq == <<"A", "B", "C", "D", "E", "F", "G", "H", "I", "J", "K", "L", "M",
              "N", "O", "P", "Q", "R", "S", "T", "U", "V", "W", "X", "Y", "Z">>
LowerSeq == <<"a", "b", "c", "d", "e", "f", "g", "h", "i", "j", "k", "l", "m",
              "n", "o", "p", "q", "r", "s", "t", "u", "v", "w", "x", "y", "z">>
Upper == {UpperSeq[i] : i \in 1..26}
Lower == {LowerSeq[i] : i \in 1..26}
Digits == {"0", "1", "2", "3", "4", "5", "6", "7", "8", "9"}

\* The alphabet the sanitizers are run on.
Chars == {"a", "A", "1", "'", " ", "\t", "-", ".", "/", "\\", "U+0130"}

\* char::is_alphanumeric: Alphabetic or Numeric. U+0130 is a letter (Lu);
\* U+0307 is a nonspacing mark outside Other_Alphabetic.
is_alphanumeric(c) == c \in Upper \cup Lower \cup Digits \cup {"U+0130"}

\* char::is_whitespace: White_Space.
is_whitespace(c) == c \in {" ", "\t", "\n"}

\* The lowercase mapping str::to_lowercase applies to each character: the
\* full Unicode mapping, which takes U+0130 to the two characters "i" U+0307
\* and leaves a character without a lowercase form unchanged.
char_to_lowercase(c) ==
    IF c \in Upper THEN <<LowerSeq[CHOOSE i \in 1..26 : UpperSeq[i] = c]>>
    ELSE IF c = "U+0130" THEN <<"i", "U+0307">>
    ELSE <<c>>

RECURSIVE to_lowercase(_)
to_lowercase(s) ==
    IF s = <<>> THEN <<>>
    ELSE char_to_lowercase(Head(s)) \o to_lowercase(Tail(s))

\* s.replace(from, ""): every occurrence of the character removed.
remove_char(s, from) == SelectSeq(s, LAMBDA c : c # from)

\* s.replace(from, to) for single characters.
replace_char(s, from, to) ==
    [i \in 1..Len(s) |-> IF s[i] = from THEN to ELSE s[i]]

\* .chars().map(|c| if c.is_alphanumeric() || c.is_whitespace() { c } else { '-' })
hyphenate(s) ==
    [i \in 1..Len(s) |->
        IF is_alphanumeric(s[i]) \/ is_whitespace(s[i]) THEN s[i] ELSE "-"]

sanitize_tag(tag) ==
    to_lowercase(replace_char(hyphenate(remove_char(tag, "'")), " ", "-"))

\* A filter that also lets the dot of an extension through.
filename_keeps_dots(c) ==
    c \in Upper \cup Lower \cup Digits \cup {"U+0130", " ", "\t", "\n", "-", "."}

\* The filter of sanitize_filename.
filename_keeps(c) == is_alphanumeric(c) \/ is_whitespace(c) \/ c = "-"

sanitize_filename(title) == SelectSeq(title, filename_keeps)

(***************************************************************************)
(* Results: Ok(v) and Err(e) of eyre::Result                               *)
(***************************************************************************)
Ok(v) == [ok |-> TRUE, value |-> v]
Err(e) == [ok |-> FALSE, error |-> e]
NoResult == [ok |-> FALSE, error |-> "not run"]

(***************************************************************************)
(* Resolution tables                                                       *)
(***************************************************************************)
RESOLUTIONS ==
    [k \in {"nHD", "FWVGA", "qHD", "SD", "WXGA", "HD+", "FHD", "WQHD", "QHD+",
            "4K", "5K", "8K", "16K"} |->
        CASE k = "nHD" -> <<640, 360>>
          [] k = "FWVGA" -> <<854, 480>>
          [] k = "qHD" -> <<960, 540>>
          [] k = "SD" -> <<1280, 720>>
          [] k = "WXGA" -> <<1366, 768>>
          [] k = "HD+" -> <<1600, 900>>
          [] k = "FHD" -> <<1920, 1080>>
          [] k = "WQHD" -> <<2560, 1440>>
          [] k = "QHD+" -> <<3200, 1800>>
          [] k = "4K" -> <<3840, 2160>>
          [] k = "5K" -> <<5120, 2880>>
          [] k = "8K" -> <<7680, 4320>>
          [] k = "16K" -> <<15360, 8640>>]

SHORTS_RESOLUTIONS ==
    [k \in {"480p", "720p", "1080p", "1440p", "2160p"} |->
        CASE k = "480p" -> <<480, 854>>
          [] k = "720p" -> <<720, 1280>>
          [] k = "1080p" -> <<1080, 1920>>
          [] k = "1440p" -> <<1440, 2560>>
          [] k = "2160p" -> <<2160, 3840>>]

(***************************************************************************)
(* URLs and rule patterns. A pattern is a regular expression source; the   *)
(* model holds a sample of them and of URLs, with Regex::new and           *)
(* Regex::is_match (unanchored search) tabulated on the sample.            *)
(***************************************************************************)
ShortsUrl == "https://www.youtube.com/shorts/gGrqPbb6fuM"
WebUrl == "https://parrot.ai/"
Urls == {ShortsUrl, WebUrl}

Regexes == {"youtube\\.com/shorts/", "https?://", "("}

\* Regex::new(&link.regex): an unclosed group does not compile.
regex_compiles(re) == re # "("

\* regex.is_match(url)
is_match(re, u) ==
    CASE re = "youtube\\.com/shorts/" -> u = ShortsUrl
      [] re = "https?://" -> TRUE
      [] OTHER -> FALSE

(***************************************************************************)
(* Config                                                                  *)
(***************************************************************************)
Names == {"default", "youtube", "shorts", "blog"}
ResolutionKeys == {"FHD", "1080p"}
Folders == {"videos", "web"}

Links == [name : Names, regex : Regexes, resolution : ResolutionKeys, folder : Folders]

\* Option<T>
None == [some |-> FALSE]
Some(v) == [some |-> TRUE, v |-> v]
unwrap_or(opt, default) == IF opt.some THEN opt.v ELSE default

\* Frontmatter sections of the configuration file: no override, every
\* override, and a tags override that is an empty list.
NoOverrides ==
    [date |-> None, day |-> None, time |-> None, tags |-> None,
     url |-> None, author |-> None]
AllOverrides ==
    [date |-> Some(<<"2020-02-02">>), day |-> Some(<<"Sun">>),
     time |-> Some(<<"12:00">>),
     tags |-> Some(<< <<"M", "y", " ", "T", "a", "g">> >>),
     url |-> Some(<<"https://example.com/override">>),
     author |-> Some(<<"Alice">>)]
EmptyTagsOverride ==
    [date |-> None, day |-> None, time |-> None, tags |-> Some(<<>>),
     url |-> None, author |-> None]
Frontmatters == {NoOverrides, AllOverrides, EmptyTagsOverride}

Vault == "~/vault"

NoConfig == [vault |-> "", frontmatter |-> NoOverrides, links |-> <<>>]

(***************************************************************************)
(* get_resolution and LinkType::from_url                                   *)
(***************************************************************************)
\* config.links.iter().find(|link| link.name == link_name): the index of the
\* first link of that name, 0 when there is none.
find_link(link_name, cfg) ==
    LET hits == {i \in 1..Len(cfg.links) : cfg.links[i].name = link_name}
    IN  IF hits = {} THEN 0 ELSE CHOOSE i \in hits : \A j \in hits : i <= j

get_resolution(link_name, cfg) ==
    LET found == find_link(link_name, cfg) IN
    IF found = 0 THEN Err("Link type not found in config")
    ELSE LET resolution_key == cfg.links[found].resolution IN
         IF link_name = "shorts"
         THEN IF resolution_key \in DOMAIN SHORTS_RESOLUTIONS
              THEN Ok(SHORTS_RESOLUTIONS[resolution_key])
              ELSE Err("Resolution not found")
         ELSE IF resolution_key \in DOMAIN RESOLUTIONS
              THEN Ok(RESOLUTIONS[resolution_key])
              ELSE Err("Resolution not found")

LinkType(variant, u, folder, width, height) ==
    [variant |-> variant, url |-> u, folder |-> folder,
     width |-> width, height |-> height]

\* The match on link.name that picks the variant.
variant_of(name) ==
    CASE name = "shorts" -> "Shorts"
      [] name = "youtube" -> "YouTube"
      [] OTHER -> "WebLink"

\* The loop of from_url from link i on, default_link being the Option
\* captured so far (NoResult for None).
RECURSIVE scan(_, _, _, _)
scan(u, cfg, i, default_link) ==
    IF i > Len(cfg.links)
    THEN IF default_link.ok THEN default_link ELSE Err("Invalid URL format")
    ELSE LET link == cfg.links[i] IN
         IF ~regex_compiles(link.regex) THEN Err("regex parse error")
         ELSE IF ~is_match(link.regex, u) THEN scan(u, cfg, i + 1, default_link)
         ELSE IF link.name = "default"
              THEN scan(u, cfg, i + 1, Ok(LinkType("WebLink", u, link.folder, 0, 0)))
         ELSE LET res == get_resolution(link.name, cfg) IN
              IF ~res.ok THEN res
              ELSE Ok(LinkType(variant_of(link.name), u, link.folder,
                               res.value[1], res.value[2]))

\* A scan that falls back to a generic web link when nothing was captured.
from_url_always_links(u, cfg) ==
    LET found == scan(u, cfg, 1, NoResult) IN
    IF found = Err("Invalid URL format")
    THEN Ok(LinkType("WebLink", u, "", 0, 0))
    ELSE found

from_url(u, cfg) == scan(u, cfg, 1, NoResult)

(***************************************************************************)
(* extract_video_id, fetch_video_metadata, generate_embed_code             *)
(***************************************************************************)
\* The fixed pattern of extract_video_id on the sample: capture group 5 is
\* what follows "youtube.com/shorts/"; the pattern finds nothing in WebUrl.
extract_video_id(u) ==
    IF u = ShortsUrl THEN Ok("gGrqPbb6fuM")
    ELSE Err("Failed to extract video ID from URL")

\* What the provider can answer: the request or its JSON decoding fails, or
\* a document whose "items" holds no snippet or one. A snippet's fields are
\* Options: a field may be missing from the document.
FullSnippet ==
    [title |-> Some(<<"T", "e", "s", "t", ":", " ", "A", "/", ".", ".", "B">>),
     description |-> Some("A test video."),
     channelTitle |-> Some("Bob's Channel"),
     publishedAt |-> Some("2024-01-01T00:00:00Z"),
     tags |-> Some(<< <<"R", "u", "s", "t", " ", "L", "a", "n", "g">>,
                      <<"D", "o", "n", "'", "t">> >>)]
BareSnippet ==
    [title |-> None, description |-> None, channelTitle |-> None,
     publishedAt |-> None, tags |-> None]
Responses ==
    {[received |-> FALSE, items |-> <<>>],
     [received |-> TRUE, items |-> <<>>],
     [received |-> TRUE, items |-> <<FullSnippet>>],
     [received |-> TRUE, items |-> <<BareSnippet>>]}

fetch_video_metadata(id, response) ==
    IF ~response.received THEN Err("request failed")
    ELSE IF response.items = <<>> THEN Err("Video metadata not found")
    ELSE LET snippet == response.items[1] IN
         Ok([id |-> id,
             title |-> unwrap_or(snippet.title, <<>>),
             description |-> unwrap_or(snippet.description, ""),
             channel |-> unwrap_or(snippet.channelTitle, ""),
             published_at |-> unwrap_or(snippet.publishedAt, ""),
             tags |-> unwrap_or(snippet.tags, <<>>)])

generate_embed_code(id, width, height) ==
    "<iframe width=\"" \o ToString(width) \o "\" height=\"" \o ToString(height)
    \o "\" src=\"https://www.youtube.com/embed/" \o id
    \o "\" frameborder=\"0\" allowfullscreen></iframe>"

(***************************************************************************)
(* format_frontmatter                                                      *)
(***************************************************************************)
\* One line of the frontmatter: what format! puts before the value, and the
\* value.
Line(key, value) == [key |-> key, value |-> value]

\* today(): the wall clock read in the fixed time zone.
Nows == {[date |-> <<"2026-11-01">>, day |-> <<"Sun">>, time |-> <<"09:30">>]}

tag_lines(tags) ==
    IF tags = <<>> THEN <<>>
    ELSE <<Line("tags:", <<>>)>>
         \o [i \in 1..Len(tags) |-> Line("  - ", sanitize_tag(tags[i]))]

format_frontmatter(frontmatter, u, author, tags, now) ==
    <<Line("---", <<>>),
      Line("date: ", unwrap_or(frontmatter.date, now.date)),
      Line("day: ", unwrap_or(frontmatter.day, now.day)),
      Line("time: ", unwrap_or(frontmatter.time, now.time))>>
    \o tag_lines(tags)
    \o <<Line("url: ", <<u>>),
         Line("author: ", <<author>>),
         Line("---", <<>>),
         Line("", <<>>)>>

(***************************************************************************)
(* create_markdown_file                                                    *)
(***************************************************************************)
\* shellexpand::tilde
expanduser(path) == IF path = "~/vault" THEN "/home/user/vault" ELSE path

\* vault_path_expanded.join(folder)
full_path(vault_path, folder) == <<expanduser(vault_path), folder>>

\* full_path.join(file_name + ".md")
file_path(vault_path, folder, title) ==
    [dir |-> full_path(vault_path, folder),
     name |-> sanitize_filename(title) \o <<".md">>]

\* The pieces write! hands to the file one after the other.
note_pieces(frontmatter_str, embed_code, description) ==
    <<frontmatter_str, "\n", embed_code, "\n\n## Description\n", description>>

NotePieces == 5

NoArgs == [title |-> <<>>, description |-> "", embed_code |-> "", url |-> "",
           author |-> "", tags |-> <<>>, folder |-> ""]

\* File::create: the file exists and is empty, whatever it held.
create_file(fs, path) ==
    [p \in DOMAIN fs \cup {path} |-> IF p = path THEN <<>> ELSE fs[p]]

\* The file after the first k pieces reached it.
write_pieces(fs, path, pieces, k) ==
    [fs EXCEPT ![path] = SubSeq(pieces, 1, k)]

(***************************************************************************)
(* One invocation of handle_url                                            *)
(***************************************************************************)
Init ==
    /\ url \in Urls
    /\ \E n \in 0..MaxLinks : \E links \in [1..n -> Links] : \E fm \in Frontmatters :
           config = [vault |-> Vault, frontmatter |-> fm, links |-> links]
    /\ link_type = NoResult
    /\ video_id = NoResult
    /\ args = NoArgs
    /\ dirs = {}
    /\ files = <<>>
    /\ result = NoResult
    /\ extract_calls = 0
    /\ fetch_calls = 0
    /\ pc = "handle_url"
    /\ text = <<>>
    /\ tag_out = <<>>
    /\ tag_again = <<>>
    /\ file_name = <<>>
    /\ spc = "idle"

\* A match whose WebLink arm calls the video handler.
handler_of_video_only(variant) ==
    CASE variant = "Shorts" -> "handle_shorts_url"
      [] OTHER -> "handle_youtube_url"

\* The name of the handler the match of handle_url calls.
handler_of(variant) ==
    CASE variant = "Shorts" -> "handle_shorts_url"
      [] variant = "YouTube" -> "handle_youtube_url"
      [] OTHER -> "handle_weblink_url"

\* handle_url: LinkType::from_url(url, config)? and the match on its variant.
Classify ==
    /\ pc = "handle_url"
    /\ link_type' = from_url(url, config)
    /\ IF link_type'.ok
       THEN /\ pc' = handler_of(link_type'.value.variant)
            /\ result' = result
       ELSE /\ pc' = "done"
            /\ result' = link_type'
    /\ UNCHANGED <<url, config, video_id, args, dirs, files, extract_calls, fetch_calls>>
    /\ UNCHANGED svars

\* handle_shorts_url, handle_youtube_url: extract_video_id(url)?
ExtractVideoId ==
    /\ pc \in {"handle_shorts_url", "handle_youtube_url"}
    /\ video_id' = extract_video_id(link_type.value.url)
    /\ extract_calls' = extract_calls + 1
    /\ IF video_id'.ok
       THEN pc' = "fetch_video_metadata" /\ result' = result
       ELSE pc' = "done" /\ result' = video_id'
    /\ UNCHANGED <<url, config, link_type, args, dirs, files, fetch_calls>>
    /\ UNCHANGED svars

\* handle_shorts_url, handle_youtube_url: fetch_video_metadata(..).await?,
\* generate_embed_code, and the call of create_markdown_file.
FetchVideoMetadata ==
    /\ pc = "fetch_video_metadata"
    /\ fetch_calls' = fetch_calls + 1
    /\ \E response \in Responses :
        LET metadata == fetch_video_metadata(video_id.value, response) IN
        IF metadata.ok
        THEN /\ args' = [title |-> metadata.value.title,
                         description |-> metadata.value.description,
                         embed_code |-> generate_embed_code(video_id.value,
                                            link_type.value.width, link_type.value.height),
                         url |-> link_type.value.url,
                         author |-> metadata.value.channel,
                         tags |-> metadata.value.tags,
                         folder |-> link_type.value.folder]
             /\ pc' = "create_dir_all"
             /\ result' = result
        ELSE /\ args' = args
             /\ pc' = "done"
             /\ result' = metadata
    /\ UNCHANGED <<url, config, link_type, video_id, dirs, files, extract_calls>>
    /\ UNCHANGED svars

\* handle_weblink_url: the placeholders and the call of create_markdown_file.
HandleWeblinkUrl ==
    /\ pc = "handle_weblink_url"
    /\ args' = [title |-> <<"S", "o", "m", "e", " ", "T", "i", "t", "l", "e">>,
                description |-> "Some Description",
                embed_code |-> "",
                url |-> link_type.value.url,
                author |-> "Some Author",
                tags |-> << <<"t", "a", "g", "1">>, <<"t", "a", "g", "2">> >>,
                folder |-> link_type.value.folder]
    /\ pc' = "create_dir_all"
    /\ UNCHANGED <<url, config, link_type, video_id, dirs, files, result,
                   extract_calls, fetch_calls>>
    /\ UNCHANGED svars

\* create_markdown_file: std::fs::create_dir_all(&full_path), which the
\* filesystem may refuse.
CreateDirAll ==
    /\ pc = "create_dir_all"
    /\ \E created \in BOOLEAN :
        IF created
        THEN /\ dirs' = dirs \cup {full_path(config.vault, args.folder)}
             /\ pc' = "File::create"
             /\ result' = result
        ELSE /\ dirs' = dirs
             /\ pc' = "done"
             /\ result' = Err("Failed to create directory")
    /\ UNCHANGED <<url, config, link_type, video_id, args, files,
                   extract_calls, fetch_calls>>
    /\ UNCHANGED svars

\* create_markdown_file: std::fs::File::create(&file_path), which the
\* filesystem may refuse.
FileCreate ==
    /\ pc = "File::create"
    /\ \E created \in BOOLEAN :
        IF created
        THEN /\ files' = create_file(files, file_path(config.vault, args.folder, args.title))
             /\ pc' = "write"
             /\ result' = result
        ELSE /\ files' = files
             /\ pc' = "done"
             /\ result' = Err("Failed to create markdown file")
    /\ UNCHANGED <<url, config, link_type, video_id, args, dirs,
                   extract_calls, fetch_calls>>
    /\ UNCHANGED svars

\* create_markdown_file: format_frontmatter and write!, which may fail after
\* any number of its pieces.
WriteNote ==
    /\ pc = "write"
    /\ \E now \in Nows : \E k \in 0..NotePieces :
        LET frontmatter_str == format_frontmatter(config.frontmatter, args.url,
                                                  args.author, args.tags, now)
            pieces == note_pieces(frontmatter_str, args.embed_code, args.description)
        IN  /\ files' = write_pieces(files,
                            file_path(config.vault, args.folder, args.title), pieces, k)
            /\ result' = IF k = NotePieces THEN Ok("()")
                         ELSE Err("Failed to write to markdown file")
    /\ pc' = "done"
    /\ UNCHANGED <<url, config, link_type, video_id, args, dirs,
                   extract_calls, fetch_calls>>
    /\ UNCHANGED svars

Next ==
    \/ Classify
    \/ ExtractVideoId
    \/ FetchVideoMetadata
    \/ HandleWeblinkUrl
    \/ CreateDirAll
    \/ FileCreate
    \/ WriteNote

Spec == Init /\ [][Next]_vars

(***************************************************************************)
(* LinkType::from_url alone, on every URL of the sample under every rule   *)
(* table of at most MaxRules rules                                         *)
(***************************************************************************)
ClassifyInit ==
    /\ url \in Urls
    /\ \E n \in 0..MaxRules : \E links \in [1..n -> Links] :
           config = [vault |-> Vault, frontmatter |-> NoOverrides, links |-> links]
    /\ link_type = NoResult
    /\ video_id = NoResult
    /\ args = NoArgs
    /\ dirs = {}
    /\ files = <<>>
    /\ result = NoResult
    /\ extract_calls = 0
    /\ fetch_calls = 0
    /\ pc = "handle_url"
    /\ text = <<>>
    /\ tag_out = <<>>
    /\ tag_again = <<>>
    /\ file_name = <<>>
    /\ spc = "idle"

ClassifyNext == Classify

SpecClassify == ClassifyInit /\ [][ClassifyNext]_vars

(***************************************************************************)
(* The sanitizers on every text of at most MaxLen characters               *)
(***************************************************************************)
SanInit ==
    /\ \E n \in 0..MaxLen : text \in [1..n -> Chars]
    /\ tag_out = <<>>
    /\ tag_again = <<>>
    /\ file_name = <<>>
    /\ spc = "input"
    /\ url = ""
    /\ config = NoConfig
    /\ link_type = NoResult
    /\ video_id = NoResult
    /\ args = NoArgs
    /\ dirs = {}
    /\ files = <<>>
    /\ result = NoResult
    /\ extract_calls = 0
    /\ fetch_calls = 0
    /\ pc = "idle"

SanitizeTag ==
    /\ spc = "input"
    /\ tag_out' = sanitize_tag(text)
    /\ spc' = "sanitize_tag"
    /\ UNCHANGED <<text, tag_again, file_name>>
    /\ UNCHANGED cvars

SanitizeTagAgain ==
    /\ spc = "sanitize_tag"
    /\ tag_again' = sanitize_tag(tag_out)
    /\ spc' = "sanitize_tag twice"
    /\ UNCHANGED <<text, tag_out, file_name>>
    /\ UNCHANGED cvars

SanitizeFilename ==
    /\ spc = "input"
    /\ file_name' = sanitize_filename(text)
    /\ spc' = "sanitize_filename"
    /\ UNCHANGED <<text, tag_out, tag_again>>
    /\ UNCHANGED cvars

SanNext ==
    \/ SanitizeTag
    \/ SanitizeTagAgain
    \/ SanitizeFilename

SpecSanitize == SanInit /\ [][SanNext]_vars

(***************************************************************************)
(* Vocabulary of the properties                                            *)
(***************************************************************************)
Classified == pc \notin {"handle_url", "idle"}

RuleCount == Len(config.links)

\* Rule i's pattern compiles and is found in the URL.
RuleMatches(i) ==
    /\ regex_compiles(config.links[i].regex)
    /\ is_match(config.links[i].regex, url)

AllCompile == \A i \in 1..RuleCount : regex_compiles(config.links[i].regex)

IsDefault(i) == config.links[i].name = "default"

\* The earliest rule in configured order that matches and is not named
\* "default"; 0 when there is none.
FirstSpecific ==
    LET hits == {i \in 1..RuleCount : RuleMatches(i) /\ ~IsDefault(i)}
    IN  IF hits = {} THEN 0 ELSE CHOOSE i \in hits : \A j \in hits : i <= j

\* The table a rule's family selects: the vertical one for "shorts".
TableOf(rule) == IF rule.name = "shorts" THEN SHORTS_RESOLUTIONS ELSE RESOLUTIONS

KeyIsValid(rule) == rule.resolution \in DOMAIN TableOf(rule)

\* The link the specification builds from a rule with a valid key: the
\* variant of its name, its folder and the size under its own key.
LinkBuiltFrom(rule) ==
    [variant |-> CASE rule.name = "shorts" -> "Shorts"
                   [] rule.name = "youtube" -> "YouTube"
                   [] OTHER -> "WebLink",
     url |-> url,
     folder |-> rule.folder,
     width |-> TableOf(rule)[rule.resolution][1],
     height |-> TableOf(rule)[rule.resolution][2]]

Sizes(table) == {table[k] : k \in DOMAIN table}

\* The notes on disk that write! completed, and their parts.
Complete(p) == Len(files[p]) = NotePieces
FrontmatterOf(p) == files[p][1]
EmbedOf(p) == files[p][3]
ValuesOf(lines, key) == SelectSeq(lines, LAMBDA l : l.key = key)

(***************************************************************************)
(* C1. LinkType::from_url: when a matching rule named "default" comes      *)
(* before a matching rule that is not (the earliest such rule, its key in  *)
(* its family's table, every pattern compiling), the result is the link    *)
(* built from that rule: its variant, its folder, the size under its key.  *)
(***************************************************************************)
C1_SpecificRuleBeatsEarlierDefault ==
    (/\ Classified
     /\ AllCompile
     /\ FirstSpecific # 0
     /\ KeyIsValid(config.links[FirstSpecific])
     /\ \E d \in 1..RuleCount : d < FirstSpecific /\ IsDefault(d) /\ RuleMatches(d))
    => link_type = Ok(LinkBuiltFrom(config.links[FirstSpecific]))

(***************************************************************************)
(* C2. LinkType::from_url: when every pattern compiles, none matches the   *)
(* URL and no rule is named "default", classification is the error         *)
(* "Invalid URL format", never a link.                                     *)
(***************************************************************************)
C2_Pre ==
    /\ Classified
    /\ AllCompile
    /\ \A i \in 1..RuleCount : ~RuleMatches(i) /\ ~IsDefault(i)

C2_NoMatchNoDefaultFails ==
    C2_Pre => link_type = Err("Invalid URL format")

C2_Witness == C2_Pre /\ RuleCount >= 2 /\ ~link_type.ok

(***************************************************************************)
(* C3. The author line of a written note carries the configured author     *)
(* override when there is one, and the fetched channel name otherwise.     *)
(***************************************************************************)
C3_AuthorOverrideWins ==
    \A p \in DOMAIN files :
        Complete(p) =>
            ValuesOf(FrontmatterOf(p), "author: ")
                = <<Line("author: ", unwrap_or(config.frontmatter.author, <<args.author>>))>>

(***************************************************************************)
(* C4. handle_url on a URL that no rule other than "default" matches.      *)
(* As claimed: whenever the table holds a rule named "default". As         *)
(* amended: whenever every pattern compiles and a rule named "default"     *)
(* matches the URL. Then classification is a WebLink of width 0 and        *)
(* height 0, extract_video_id and fetch_video_metadata are never called,   *)
(* and the embed fragment of the written note is empty.                    *)
(***************************************************************************)
C4_FallbackOutcome ==
    /\ link_type.ok
    /\ link_type.value.variant = "WebLink"
    /\ link_type.value.width = 0
    /\ link_type.value.height = 0
    /\ extract_calls = 0
    /\ fetch_calls = 0
    /\ \A p \in DOMAIN files : Complete(p) => EmbedOf(p) = ""

C4_NoSpecificMatch == \A i \in 1..RuleCount : ~IsDefault(i) => ~RuleMatches(i)

C4_Original_DefaultPresent ==
    (/\ Classified
     /\ C4_NoSpecificMatch
     /\ \E d \in 1..RuleCount : IsDefault(d))
    => C4_FallbackOutcome

C4_Pre ==
    /\ Classified
    /\ AllCompile
    /\ C4_NoSpecificMatch
    /\ \E d \in 1..RuleCount : IsDefault(d) /\ RuleMatches(d)

C4_DefaultMatchFallsBack == C4_Pre => C4_FallbackOutcome

C4_Witness ==
    /\ C4_Pre
    /\ \E i \in 1..RuleCount : ~IsDefault(i)
    /\ pc = "done"
    /\ result.ok
    /\ \E p \in DOMAIN files : Complete(p)

(***************************************************************************)
(* C5. When handle_url has ended, either it succeeded and exactly one      *)
(* file holds a complete note, or it failed and no file was written.       *)
(***************************************************************************)
C5_NoteOrNothing ==
    pc = "done" =>
        \/ result.ok /\ Cardinality(DOMAIN files) = 1
                     /\ \A p \in DOMAIN files : Complete(p)
        \/ ~result.ok /\ DOMAIN files = {}

(***************************************************************************)
(* C6. sanitize_tag is idempotent: applied to its own result it returns    *)
(* that result.                                                            *)
(***************************************************************************)
C6_SanitizeTagIdempotent ==
    spc = "sanitize_tag twice" => tag_again = tag_out

(***************************************************************************)
(* C7. sanitize_filename returns a stem with no path separator and no      *)
(* "..", made only of letters, digits, whitespace and hyphens, which are   *)
(* characters of the title in their original order.                        *)
(***************************************************************************)
RECURSIVE IsSubsequence(_, _)
IsSubsequence(a, b) ==
    IF a = <<>> THEN TRUE
    ELSE IF b = <<>> THEN FALSE
    ELSE IF Head(a) = Head(b) THEN IsSubsequence(Tail(a), Tail(b))
    ELSE IsSubsequence(a, Tail(b))

HasDotDot(s) == \E i \in 1..(Len(s) - 1) : s[i] = "." /\ s[i + 1] = "."
HasSeparator(s) == \E i \in 1..Len(s) : s[i] \in {"/", "\\"}

C7_FilenameStaysInFolder ==
    spc = "sanitize_filename" =>
        /\ ~HasDotDot(file_name)
        /\ ~HasSeparator(file_name)
        /\ \A i \in 1..Len(file_name) :
               file_name[i] \in Upper \cup Lower \cup Digits
                                \cup {"U+0130", " ", "\t", "\n", "-"}
        /\ IsSubsequence(file_name, text)

C7_Witness ==
    /\ spc = "sanitize_filename"
    /\ HasDotDot(text)
    /\ HasSeparator(text)
    /\ file_name # <<>>

(***************************************************************************)
(* C8. A resolution key missing from its family's table is an error: when  *)
(* the earliest matching rule not named "default" has such a key,          *)
(* classification fails with "Resolution not found"; a returned link has   *)
(* size (0, 0) only as the WebLink of a "default" rule, and any other      *)
(* returned link has a size of the selected table.                         *)
(***************************************************************************)
C8_MissingKeyIsAnError ==
    (Classified /\ AllCompile) =>
        /\ (FirstSpecific # 0 /\ ~KeyIsValid(config.links[FirstSpecific]))
               => link_type = Err("Resolution not found")
        /\ (link_type.ok /\ FirstSpecific = 0)
               => /\ link_type.value.variant = "WebLink"
                  /\ <<link_type.value.width, link_type.value.height>> = <<0, 0>>
        /\ (link_type.ok /\ FirstSpecific # 0)
               => <<link_type.value.width, link_type.value.height>>
                      \in Sizes(TableOf(config.links[FirstSpecific]))

(***************************************************************************)
(* C9. First match wins with the matched rule's own fields: a link         *)
(* returned for a rule not named "default" is the one built from the       *)
(* earliest such matching rule, with the size under that rule's own key.   *)
(***************************************************************************)
C9_FirstMatchOwnFields ==
    (Classified /\ AllCompile /\ FirstSpecific # 0 /\ link_type.ok) =>
        /\ KeyIsValid(config.links[FirstSpecific])
        /\ link_type = Ok(LinkBuiltFrom(config.links[FirstSpecific]))

(***************************************************************************)
(* C10. The tags of a written note are the configured tags override when   *)
(* there is one and the fetched tags otherwise, each through sanitize_tag,  *)
(* in order; the "tags:" block is there exactly when that sequence is not  *)
(* empty, between the time line and the url line.                          *)
(***************************************************************************)
C10_ExpectedBlock ==
    LET tags == unwrap_or(config.frontmatter.tags, args.tags) IN
    IF tags = <<>> THEN <<>>
    ELSE <<Line("tags:", <<>>)>>
         \o [i \in 1..Len(tags) |-> Line("  - ", sanitize_tag(tags[i]))]

C10_TagsOverrideWins ==
    \A p \in DOMAIN files :
        Complete(p) =>
            LET fm == FrontmatterOf(p)
                n == Len(C10_ExpectedBlock)
            IN  /\ Len(fm) = 8 + n
                /\ fm[4].key = "time: "
                /\ SubSeq(fm, 5, 4 + n) = C10_ExpectedBlock
                /\ fm[5 + n].key = "url: "

====
